---------------------------- MODULE Spec2Model ----------------------------
(***************************************************************************)
(* fetch_feeds.py: the feed harvester.  One run loads every feed of FEEDS, *)
(* normalizes the entries, keeps the last 14 days, classifies, derives the *)
(* front-end item, removes duplicates, sorts and writes items.json.        *)
(*                                                                         *)
(* Python strings are sequences of one-character strings, so that          *)
(* str.strip, str.lower, str.replace, re.sub, re.search, urlparse, the     *)
(* comparison of strings in list.sort and strftime/strptime are computed   *)
(* character by character, as the interpreter computes them.               *)
(***************************************************************************)
EXTENDS Integers, Sequences, FiniteSets, TLC

VARIABLES
  pc,         \* position of the script: "load", "filter", ..., "done"
  feed,       \* index in FEEDS of the feed the loop of line 111 is at
  midnight,   \* TRUE once the wall clock has passed midnight (IST) in the run
  entries,    \* entries, as accumulated by lines 110-128
  stderr,     \* names of the feeds the handler of line 128 warned about
  today_ist,  \* today_ist of line 131, a day number; 0 before line 131
  recent,     \* entries as rebound by line 139
  items,      \* items of lines 142-157
  deduped,    \* deduped of lines 161-169
  items_json, \* the array in items.json; <<"absent">> before the write
  call,       \* argument of the helper under study (helper specifications)
  ret         \* its result; <<"pending">> before the call returns

vars == <<pc, feed, midnight, entries, stderr, today_ist, recent, items,
          deduped, items_json, call, ret>>

-----------------------------------------------------------------------------
(* Characters and strings                                                   *)

\* The characters of the model in code-point order ("N~", "n~": U+00D1, U+00F1).
Chars ==
  <<" ", "#", "&", "(", ")", "-", ".", "/", "0", "1", "2", "3", "4", "5",
    "6", "7", "8", "9", ":", "<", ">", "?", "A", "B", "C", "D", "E", "F",
    "G", "H", "I", "J", "K", "L", "M", "N", "O", "P", "Q", "R", "S", "T",
    "U", "V", "W", "X", "Y", "Z", "_", "a", "b", "c", "d", "e", "f", "g",
    "h", "i", "j", "k", "l", "m", "n", "o", "p", "q", "r", "s", "t", "u",
    "v", "w", "x", "y", "z", "|", "N~", "n~">>

CodePoints ==
  <<32, 35, 38, 40, 41, 45, 46, 47, 48, 49, 50, 51, 52, 53,
    54, 55, 56, 57, 58, 60, 62, 63, 65, 66, 67, 68, 69, 70,
    71, 72, 73, 74, 75, 76, 77, 78, 79, 80, 81, 82, 83, 84,
    85, 86, 87, 88, 89, 90, 95, 97, 98, 99, 100, 101, 102, 103,
    104, 105, 106, 107, 108, 109, 110, 111, 112, 113, 114, 115, 116, 117,
    118, 119, 120, 121, 122, 124, 209, 241>>

CharSet == {Chars[i] : i \in 1..Len(Chars)}

\* ord(c)
Ord == [c \in CharSet |-> CodePoints[CHOOSE i \in 1..Len(Chars) : Chars[i] = c]]

UpperLetters == {c \in CharSet : (Ord[c] >= 65 /\ Ord[c] <= 90) \/ Ord[c] = 209}
LowerLetters == {c \in CharSet : (Ord[c] >= 97 /\ Ord[c] <= 122) \/ Ord[c] = 241}
DigitChars   == {c \in CharSet : Ord[c] >= 48 /\ Ord[c] <= 57}

\* \w of the re module, and its complement at a \b
WordChars == UpperLetters \cup LowerLetters \cup DigitChars \cup {"_"}

\* str.lower() on one character
LowerChar ==
  [c \in CharSet |->
     IF c \in UpperLetters
       THEN CHOOSE d \in LowerLetters : Ord[d] = Ord[c] + 32
       ELSE c]

\* s.lower()
Lower(s) == [i \in 1..Len(s) |-> LowerChar[s[i]]]

Whitespace == {" "}

\* s.strip(): leading and trailing whitespace removed
Strip(s) ==
  LET keep == {i \in 1..Len(s) : s[i] \notin Whitespace}
  IN  IF keep = {} THEN <<>>
      ELSE LET lo == CHOOSE i \in keep : \A j \in keep : i <= j
               hi == CHOOSE i \in keep : \A j \in keep : j <= i
           IN  SubSeq(s, lo, hi)

\* a < b and a <= b of two str, by code points
StrLess(a, b) ==
  LET n    == IF Len(a) < Len(b) THEN Len(a) ELSE Len(b)
      diff == {i \in 1..n : a[i] # b[i]}
  IN  IF diff = {} THEN Len(a) < Len(b)
      ELSE LET k == CHOOSE i \in diff : \A j \in diff : i <= j
           IN  Ord[a[k]] < Ord[b[k]]

\* s[i:] starts with p
StartsWithAt(s, i, p) ==
  /\ i + Len(p) - 1 <= Len(s)
  /\ \A k \in 1..Len(p) : s[i + k - 1] = p[k]

-----------------------------------------------------------------------------
(* CATEGORY RULES (lines 38-55)                                            *)

Economy == <<"E","c","o","n","o","m","y">>
InternationalRelations == <<"I","n","t","e","r","n","a","t","i","o","n","a","l"," ","R","e","l","a","t","i","o","n","s">>
Environment == <<"E","n","v","i","r","o","n","m","e","n","t">>
ScienceTech == <<"S","c","i","e","n","c","e"," ","&"," ","T","e","c","h">>
SecurityDisaster == <<"S","e","c","u","r","i","t","y","/","D","i","s","a","s","t","e","r">>
Judgments == <<"J","u","d","g","m","e","n","t","s">>
BillsActs == <<"B","i","l","l","s"," ","&"," ","A","c","t","s">>
Schemes == <<"S","c","h","e","m","e","s">>
HistoryCulture == <<"H","i","s","t","o","r","y"," ","&"," ","C","u","l","t","u","r","e">>
Geography == <<"G","e","o","g","r","a","p","h","y">>
ReportsIndices == <<"R","e","p","o","r","t","s"," ","&"," ","I","n","d","i","c","e","s">>
Polity == <<"P","o","l","i","t","y">>

\* The class [A-Z] in a pattern.  Every other element of a pattern is a literal.
AnyLetter == "[A-Z]"

\* Each pattern is \b(alt|alt|...)\b; an optional [- ]? is written out as the
\* alternatives without it, with "-" and with " ".  The \b inside SC\b|HC\b
\* repeats the closing \b.
PatEconomy ==
  { <<"R","B","I">>,
    <<"r","e","p","o"," ","r","a","t","e">>,
    <<"C","P","I">>,
    <<"W","P","I">>,
    <<"i","n","f","l","a","t","i","o","n">>,
    <<"G","S","T">>,
    <<"B","u","d","g","e","t">>,
    <<"F","i","s","c","a","l">>,
    <<"G","D","P">>,
    <<"S","E","B","I">>,
    <<"b","a","n","k">>,
    <<"N","B","F","C">>,
    <<"m","o","n","e","t","a","r","y">>,
    <<"b","o","n","d">>,
    <<"y","i","e","l","d">>,
    <<"F","D","I">> }

PatInternationalRelations ==
  { <<"U","N">>,
    <<"U","N","F","C","C","C">>,
    <<"B","R","I","C","S">>,
    <<"S","C","O">>,
    <<"G","2","0">>,
    <<"b","i","l","a","t","e","r","a","l">>,
    <<"M","o","U">>,
    <<"a","g","r","e","e","m","e","n","t">>,
    <<"t","r","e","a","t","y">>,
    <<"I","n","d","o","P","a","c","i","f","i","c">>,
    <<"I","n","d","o","-","P","a","c","i","f","i","c">>,
    <<"I","n","d","o"," ","P","a","c","i","f","i","c">>,
    <<"M","E","A">>,
    <<"s","u","m","m","i","t">>,
    <<"d","i","a","l","o","g","u","e">> }

PatEnvironment ==
  { <<"e","n","v","i","r","o","n","m","e","n","t">>,
    <<"f","o","r","e","s","t">>,
    <<"w","i","l","d","l","i","f","e">>,
    <<"t","i","g","e","r">>,
    <<"N","T","C","A">>,
    <<"c","o","n","s","e","r","v","a","t","i","o","n">>,
    <<"p","o","l","l","u","t","i","o","n">>,
    <<"c","l","i","m","a","t","e">>,
    <<"e","m","i","s","s","i","o","n">>,
    <<"b","i","o","d","i","v","e","r","s","i","t","y">>,
    <<"b","i","o","d","i","v","e","r","s","i","t","i","e","s">> }

PatScienceTech ==
  { <<"I","S","R","O">>,
    <<"s","p","a","c","e">>,
    <<"s","a","t","e","l","l","i","t","e">>,
    <<"l","a","u","n","c","h">>,
    <<"A","I">>,
    <<"q","u","a","n","t","u","m">>,
    <<"s","e","m","i","c","o","n","d","u","c","t","o","r">>,
    <<"s","c","i","e","n","c","e">>,
    <<"t","e","c","h","n","o","l","o","g","y">>,
    <<"D","S","T">>,
    <<"M","e","i","t","Y">>,
    <<"C","S","I","R">> }

PatSecurityDisaster ==
  { <<"c","y","c","l","o","n","e">>,
    <<"f","l","o","o","d">>,
    <<"e","a","r","t","h","q","u","a","k","e">>,
    <<"N","D","M","A">>,
    <<"d","i","s","a","s","t","e","r">>,
    <<"N","D","R","F">>,
    <<"s","e","c","u","r","i","t","y">>,
    <<"b","o","r","d","e","r">>,
    <<"d","e","f","e","n","c","e">>,
    <<"p","o","l","i","c","e">>,
    <<"c","y","b","e","r","s","e","c","u","r","i","t","y">> }

PatJudgments ==
  { <<"S","u","p","r","e","m","e"," ","C","o","u","r","t">>,
    <<"H","i","g","h"," ","C","o","u","r","t">>,
    <<"S","C">>,
    <<"H","C">>,
    <<"j","u","d","g","m","e","n","t">>,
    <<"v","e","r","d","i","c","t">>,
    <<"o","r","d","e","r">> }

PatBillsActs ==
  { <<"B","i","l","l">>,
    <<"A","c","t">>,
    <<"A","m","e","n","d","m","e","n","t">>,
    <<"O","r","d","i","n","a","n","c","e">>,
    <<"P","a","r","l","i","a","m","e","n","t">>,
    <<"L","o","k"," ","S","a","b","h","a">>,
    <<"R","a","j","y","a"," ","S","a","b","h","a">>,
    <<"G","a","z","e","t","t","e">> }

PatSchemes ==
  { <<"Y","o","j","a","n","a">>,
    <<"M","i","s","s","i","o","n">>,
    <<"S","c","h","e","m","e">>,
    <<"P","M",AnyLetter>>,
    <<"P","M","-",AnyLetter>>,
    <<"P","M"," ",AnyLetter>>,
    <<"S","A","M","A","R","T","H">>,
    <<"P","M","K","I","S","A","N">>,
    <<"P","M","-","K","I","S","A","N">>,
    <<"P","M"," ","K","I","S","A","N">>,
    <<"P","M","A","Y">>,
    <<"A","Y","U","S","H">>,
    <<"N","R","E","G","A">>,
    <<"U","j","j","w","a","l","a">>,
    <<"U","D","A","N">>,
    <<"A","w","a","s">> }

PatHistoryCulture ==
  { <<"U","N","E","S","C","O">>,
    <<"h","e","r","i","t","a","g","e">>,
    <<"t","e","m","p","l","e">>,
    <<"f","e","s","t","i","v","a","l">>,
    <<"c","u","l","t","u","r","e">>,
    <<"a","r","c","h","a","e","o","l","o","g","y">>,
    <<"a","r","c","h","a","e","o","l","o","g","i","c","a","l">>,
    <<"A","S","I">> }

PatGeography ==
  { <<"I","M","D">>,
    <<"m","o","n","s","o","o","n">>,
    <<"h","e","a","t","w","a","v","e">>,
    <<"E","l","N","i","n~","o">>,
    <<"E","l","-","N","i","n~","o">>,
    <<"E","l"," ","N","i","n~","o">>,
    <<"L","a","N","i","n~","a">>,
    <<"L","a","-","N","i","n~","a">>,
    <<"L","a"," ","N","i","n~","a">>,
    <<"r","i","v","e","r">>,
    <<"g","l","a","c","i","e","r">>,
    <<"p","l","a","t","e","a","u">>,
    <<"g","e","o","m","o","r","p","h","o","l","o","g","y">>,
    <<"e","a","r","t","h">>,
    <<"g","e","o","g","r","a","p","h","y">> }

PatReportsIndices ==
  { <<"N","I","T","I"," ","A","a","y","o","g">>,
    <<"i","n","d","e","x">>,
    <<"r","e","p","o","r","t">>,
    <<"s","u","r","v","e","y">>,
    <<"r","a","n","k","i","n","g">>,
    <<"s","c","o","r","e","c","a","r","d">>,
    <<"w","h","i","t","e"," ","p","a","p","e","r">> }

PatPolity ==
  { <<"C","a","b","i","n","e","t">>,
    <<"C","o","n","s","t","i","t","u","t","i","o","n">>,
    <<"f","e","d","e","r","a","l">>,
    <<"C","e","n","t","r","e">>,
    <<"S","t","a","t","e">>,
    <<"m","i","n","i","s","t","r","y">>,
    <<"d","e","p","a","r","t","m","e","n","t">>,
    <<"r","e","g","u","l","a","t","i","o","n">>,
    <<"n","o","t","i","f","i","c","a","t","i","o","n">>,
    <<"g","u","i","d","e","l","i","n","e">>,
    <<"p","o","l","i","c","y">> }

RULES ==
  << [pattern |-> PatEconomy,                cat |-> Economy],
     [pattern |-> PatInternationalRelations, cat |-> InternationalRelations],
     [pattern |-> PatEnvironment,            cat |-> Environment],
     [pattern |-> PatScienceTech,            cat |-> ScienceTech],
     [pattern |-> PatSecurityDisaster,       cat |-> SecurityDisaster],
     [pattern |-> PatJudgments,              cat |-> Judgments],
     [pattern |-> PatBillsActs,              cat |-> BillsActs],
     [pattern |-> PatSchemes,                cat |-> Schemes],
     [pattern |-> PatHistoryCulture,         cat |-> HistoryCulture],
     [pattern |-> PatGeography,              cat |-> Geography],
     [pattern |-> PatReportsIndices,         cat |-> ReportsIndices],
     [pattern |-> PatPolity,                 cat |-> Polity] >>

FALLBACK == Polity

-----------------------------------------------------------------------------
(* re.search(pattern, text, flags=re.I) and classify (lines 72-77)          *)

\* One element of a pattern against one character, ignoring case.
AtomMatches(a, c) ==
  IF a = AnyLetter
    THEN LowerChar[c] \in LowerLetters
    ELSE LowerChar[a] = LowerChar[c]

\* \b just before text[i] (i = Len(text) + 1: at the end of the text)
WordBoundary(text, i) ==
  (i > 1 /\ text[i - 1] \in WordChars) # (i <= Len(text) /\ text[i] \in WordChars)

AltMatchesAt(alt, text, i) ==
  /\ i + Len(alt) - 1 <= Len(text)
  /\ \A k \in 1..Len(alt) : AtomMatches(alt[k], text[i + k - 1])
  /\ WordBoundary(text, i + Len(alt))

\* Every alternative begins with a word character, so a match begins at one.
Search(pattern, text) ==
  \E i \in 1..Len(text) :
    /\ text[i] \in WordChars
    /\ WordBoundary(text, i)
    /\ \E alt \in pattern : AltMatchesAt(alt, text, i)

\* The loop going on after a match: the last matching rule wins.
ClassifyFromLastMatch(text, r) ==
  LET m == {k \in r..Len(RULES) : Search(RULES[k].pattern, text)}
  IN  IF m = {} THEN FALLBACK
      ELSE RULES[CHOOSE k \in m : \A j \in m : j <= k].cat

\* the loop of lines 74-77 from rule r on
RECURSIVE ClassifyFrom(_, _)
ClassifyFrom(text, r) ==
  IF r > Len(RULES) THEN FALLBACK
  ELSE IF Search(RULES[r].pattern, text) THEN RULES[r].cat
  ELSE ClassifyFrom(text, r + 1)

classify(title, summary, source_hint) ==
  ClassifyFrom(Lower(title \o <<" ">> \o summary \o <<" ">> \o source_hint), 1)

-----------------------------------------------------------------------------
(* Dates: datetime, strftime("%Y-%m-%d"), strptime(.., "%Y-%m-%d")          *)

IsLeap(y) == (y % 4 = 0 /\ y % 100 # 0) \/ y % 400 = 0

DaysInMonth(y, m) ==
  IF m = 2 THEN (IF IsLeap(y) THEN 29 ELSE 28)
  ELSE IF m \in {4, 6, 9, 11} THEN 30 ELSE 31

\* date(y, m, d).toordinal(): days since 0001-01-01, that day being 1
ToOrdinal(y, m, d) ==
  LET yy  == IF m <= 2 THEN y - 1 ELSE y
      era == yy \div 400
      yoe == yy - era * 400
      mp  == IF m > 2 THEN m - 3 ELSE m + 9
      doy == (153 * mp + 2) \div 5 + d - 1
      doe == yoe * 365 + yoe \div 4 - yoe \div 100 + doy
  IN  era * 146097 + doe - 305

\* date.fromordinal(n) as [year, month, day]
FromOrdinal(n) ==
  LET z   == n + 305
      era == z \div 146097
      doe == z - era * 146097
      yoe == (doe - doe \div 1460 + doe \div 36524 - doe \div 146096) \div 365
      doy == doe - (365 * yoe + yoe \div 4 - yoe \div 100)
      mp  == (5 * doy + 2) \div 153
      d   == doy - (153 * mp + 2) \div 5 + 1
      m   == IF mp < 10 THEN mp + 3 ELSE mp - 9
  IN  [year |-> yoe + era * 400 + (IF m <= 2 THEN 1 ELSE 0), month |-> m, day |-> d]

DigitOf == <<"0", "1", "2", "3", "4", "5", "6", "7", "8", "9">>

\* n as w decimal digits, zero padded
RECURSIVE Digits(_, _)
Digits(n, w) ==
  IF w = 0 THEN <<>> ELSE Append(Digits(n \div 10, w - 1), DigitOf[(n % 10) + 1])

\* the value of a string of digits
RECURSIVE Number(_)
Number(s) ==
  IF s = <<>> THEN 0
  ELSE 10 * Number(SubSeq(s, 1, Len(s) - 1)) + (Ord[s[Len(s)]] - 48)

\* date.fromordinal(n).strftime("%Y-%m-%d"), years 1000-9999
Strftime(n) ==
  LET c == FromOrdinal(n)
  IN  Digits(c.year, 4) \o <<"-">> \o Digits(c.month, 2) \o <<"-">> \o Digits(c.day, 2)

ValueError == -1

\* datetime.strptime(dstr, "%Y-%m-%d").date() as an ordinal, or ValueError.
\* (%m and %d also take one digit; strftime never writes that.)
Strptime(dstr) ==
  IF /\ Len(dstr) = 10
     /\ dstr[5] = "-" /\ dstr[8] = "-"
     /\ \A i \in {1, 2, 3, 4, 6, 7, 9, 10} : dstr[i] \in DigitChars
  THEN LET y == Number(SubSeq(dstr, 1, 4))
           m == Number(SubSeq(dstr, 6, 7))
           d == Number(SubSeq(dstr, 9, 10))
       IN  IF y >= 1 /\ m \in 1..12 /\ d >= 1 /\ d <= DaysInMonth(y, m)
             THEN ToOrdinal(y, m, d) ELSE ValueError
  ELSE ValueError

\* IST = timezone(timedelta(hours=5, minutes=30)) (line 24), in minutes
IST == 330

None == [none |-> TRUE]

\* datetime(*dt_struct[:6]) accepts the fields
ValidDateTime(t) ==
  /\ t.year \in 1..9999 /\ t.mon \in 1..12
  /\ t.mday >= 1 /\ t.mday <= DaysInMonth(t.year, t.mon)
  /\ t.hour \in 0..23 /\ t.min \in 0..59 /\ t.sec \in 0..59

\* to_ist_ymd(dt_struct) with fallback_today=True (lines 58-70); now is the
\* ordinal of datetime.now(IST).date() at the call
to_ist_ymd(dt_struct, now) ==
  IF dt_struct = None THEN Strftime(now)
  ELSE IF ~ValidDateTime(dt_struct) THEN Strftime(now)
  ELSE LET utc == ToOrdinal(dt_struct.year, dt_struct.mon, dt_struct.mday)
           mins == dt_struct.hour * 60 + dt_struct.min + IST
       IN  Strftime(utc + mins \div 1440)

-----------------------------------------------------------------------------
(* HELPERS (lines 96-107) and the library calls of lines 100, 107 and 123   *)

NoneStr == <<"None">>

\* x or y, on strings: None and "" are false
Or(x, y) == IF x = NoneStr \/ x = <<>> THEN y ELSE x

\* e.get(key, "") for a value that is a string when the key is present
GetStr(v) == IF v = NoneStr THEN <<>> ELSE v

Min(S) == CHOOSE x \in S : \A y \in S : x <= y

\* Where the match of <[^<]+?> that starts at s[i] ends; 0 when there is none.
\* After "<" and one character that is not "<", the lazy [^<]+? stops at the
\* first ">" and fails at a "<".
TagEnd(s, i) ==
  IF i + 2 <= Len(s) /\ s[i] = "<" /\ s[i + 1] # "<"
    THEN LET stop == {j \in (i + 2)..Len(s) : s[j] \in {"<", ">"}}
         IN  IF stop # {} /\ s[Min(stop)] = ">" THEN Min(stop) ELSE 0
    ELSE 0

\* re.sub("<[^<]+?>", "", s): every match is removed.  A match holds no "<"
\* after its first character, so no match starts inside another and the
\* matches of the left-to-right pass are all the places where one starts.
SubTags(s) ==
  LET starts  == {i \in 1..Len(s) : s[i] = "<" /\ TagEnd(s, i) # 0}
      spans   == {<<i, TagEnd(s, i)>> : i \in starts}
      indexed == [k \in 1..Len(s) |-> <<k, s[k]>>]
      Kept(p) == \A sp \in spans : p[1] < sp[1] \/ p[1] > sp[2]
      left    == SelectSeq(indexed, Kept)
  IN  [n \in 1..Len(left) |-> left[n][2]]

\* s[:n]
Prefix(s, n) == SubSeq(s, 1, IF Len(s) < n THEN Len(s) ELSE n)

SUMMARY_LIMIT == 450

\* The summary cut to the limit before the tags are removed.
NormalizeSummaryCutFirst(summary, description) ==
  SubTags(Prefix(Strip(Or(Or(summary, description), <<>>)), SUMMARY_LIMIT))

\* The "summary" of the record from the entry's two fields (lines 117, 123)
NormalizeSummary(summary, description) ==
  Prefix(SubTags(Strip(Or(Or(summary, description), <<>>))), SUMMARY_LIMIT)

\* s.replace(old, "") from s[i] on: every occurrence, left to right
RECURSIVE RemoveAll(_, _, _)
RemoveAll(s, old, i) ==
  IF i > Len(s) THEN <<>>
  ELSE IF StartsWithAt(s, i, old) THEN RemoveAll(s, old, i + Len(old))
  ELSE <<s[i]>> \o RemoveAll(s, old, i + 1)

AsciiLetters == {c \in CharSet : Ord[c] \in 65..90 \/ Ord[c] \in 97..122}
SchemeChars  == AsciiLetters \cup DigitChars \cup {"+", "-", "."}

\* urlparse(link).netloc: after the scheme, if any, the text between "//"
\* and the first of "/", "?", "#" (links without "[" or "]")
Netloc(link) ==
  LET colons == {i \in 1..Len(link) : link[i] = ":"}
      scheme == /\ colons # {}
                /\ Min(colons) > 1
                /\ link[1] \in AsciiLetters
                /\ \A k \in 1..(Min(colons) - 1) : link[k] \in SchemeChars
      url    == IF scheme THEN SubSeq(link, Min(colons) + 1, Len(link)) ELSE link
      delims == {j \in 3..Len(url) : url[j] \in {"/", "?", "#"}}
  IN  IF StartsWithAt(url, 1, <<"/", "/">>)
        THEN SubSeq(url, 3, IF delims = {} THEN Len(url) ELSE Min(delims) - 1)
        ELSE <<>>

\* prelims_facts(entry, date_str) (lines 96-103)
prelims_facts(entry, date_str) ==
  LET netloc == RemoveAll(Netloc(entry.link), <<"w","w","w",".">>, 1)
  IN  << <<"S","o","u","r","c","e",":"," ">> \o entry.feed_name,
         <<"D","a","t","e",":"," ">> \o date_str >>
      \o (IF netloc # <<>> THEN << <<"D","o","m","a","i","n",":"," ">> \o netloc >>
          ELSE <<>>)

\* The UTF-8 bytes of one character
Utf8Char(c) ==
  IF Ord[c] < 128 THEN <<Ord[c]>>
  ELSE <<192 + Ord[c] \div 64, 128 + (Ord[c] % 64)>>

\* s[lo..hi].encode("utf-8") as a sequence of byte values, by halves
RECURSIVE Utf8Range(_, _, _)
Utf8Range(s, lo, hi) ==
  IF lo > hi THEN <<>>
  ELSE IF lo = hi THEN Utf8Char(s[lo])
  ELSE Utf8Range(s, lo, (lo + hi) \div 2) \o Utf8Range(s, (lo + hi) \div 2 + 1, hi)

Utf8(s) == Utf8Range(s, 1, Len(s))

HexDigit == <<"0", "1", "2", "3", "4", "5", "6", "7", "8", "9",
              "a", "b", "c", "d", "e", "f">>

\* The sum of bytes[i] * (i + k) for i in lo..hi, by halves
RECURSIVE Mix(_, _, _, _)
Mix(bytes, k, lo, hi) ==
  IF lo > hi THEN 0
  ELSE IF lo = hi THEN bytes[lo] * (lo + k)
  ELSE Mix(bytes, k, lo, (lo + hi) \div 2) + Mix(bytes, k, (lo + hi) \div 2 + 1, hi)

\* hashlib.sha1(bytes).hexdigest(): 40 lowercase hexadecimal digits fixed by
\* the bytes.  SHA-1 itself is not computed; a short mixing function of the
\* bytes and their places stands for it.
Sha1Hex(bytes) ==
  LET a == Mix(bytes, 0, 1, Len(bytes))
      b == Mix(bytes, 3, 1, Len(bytes))
  IN  [k \in 1..40 |-> HexDigit[(((a + 7) * k + b \div k + Len(bytes)) % 16) + 1]]

\* item_id(title, link) (lines 105-107); title and link are str here
item_id(title, link) ==
  Prefix(Sha1Hex(Utf8(title \o <<"|">> \o link)), 12)

\* mains_angle(cat) (lines 79-94)
mains_angle(cat) ==
  LET M == << <<Economy, "Inflation-growth, inclusion, fiscal-monetary, reforms implications.">>,
              <<InternationalRelations, "Strategic context for India; treaties, groupings, regional balance.">>,
              <<Environment, "Conservation vs development; climate resilience; regulatory capacity.">>,
              <<ScienceTech, "Tech sovereignty, public-private R&D, ethical and strategic issues.">>,
              <<SecurityDisaster, "Preparedness, response, resilience, reforms in institutions.">>,
              <<Judgments, "Implications for rights, federalism, separation of powers.">>,
              <<BillsActs, "Objectives, key provisions, impact on stakeholders, challenges.">>,
              <<Schemes, "Targeting, funding, coverage, leakages, evaluation metrics.">>,
              <<HistoryCulture, "Cultural conservation, tourism, livelihoods, identity debates.">>,
              <<Geography, "Resource distribution, disaster risk, human-environment interactions.">>,
              <<ReportsIndices, "Methodology, findings, policy takeaways and limitations.">>,
              <<Polity, "Governance design, accountability, centre-state dynamics, implementation.">> >>
      hit == {i \in 1..Len(M) : M[i][1] = cat}
  IN  IF hit # {} THEN M[Min(hit)][2]
      ELSE "Policy relevance and implementation challenges."

-----------------------------------------------------------------------------
(* The run: configuration and what the outside hands in                     *)

\* FEEDS (lines 27-36): the PIB feed, and the MEA example of line 35 enabled,
\* so that a run has an earlier and a later feed.
FEEDS ==
  << [name |-> <<"P","I","B"," ","P","r","e","s","s"," ","R","e","l","e","a","s","e","s"," ","(","E","n","g","l","i","s","h",")">>,
      url |-> "https://pib.gov.in/RssMain.aspx?ModId=6&Lang=1&Regid=3",
      default_category |-> "Governance"],
     [name |-> <<"M","E","A"," ","P","r","e","s","s"," ","R","e","l","e","a","s","e","s">>,
      url |-> "<PUT_RSS_URL_HERE>",
      default_category |-> "International Relations"] >>

\* The day the run starts on, in IST
RunDate == [year |-> 2026, month |-> 11, day |-> 1]

\* datetime.now(IST).date() as an ordinal; a run meets at most one midnight
Now(after_midnight) ==
  ToOrdinal(RunDate.year, RunDate.month, RunDate.day)
    + (IF after_midnight THEN 1 ELSE 0)

StructTime(y, mo, d, h, mi, s) ==
  [year |-> y, mon |-> mo, mday |-> d, hour |-> h, min |-> mi, sec |-> s]

\* Entries feedparser may hand back (d.entries holds any of them, in any order):
\*   "UN summit " with no time at all;
\*   the same title and link again with another summary and no published
\*     time, updated 14 days before the run date once shifted to IST;
\*   "Flood alert" with no time at all;
\*   "Flood alert" under another link, dated 20 days after the run date.
EntryMenu ==
  { [title |-> <<"U","N"," ","s","u","m","m","i","t"," ">>,
     link |-> <<"h","t","t","p","s",":","/","/","w","w","w",".","p","i","b",".","g","o","v",".","i","n","/","x">>,
     summary |-> <<"<","b",">","M","o","U","<","/","b",">"," ","s","i","g","n","e","d">>,
     description |-> NoneStr,
     published_parsed |-> None,
     updated_parsed |-> None],
    [title |-> <<"U","N"," ","s","u","m","m","i","t">>,
     link |-> <<"h","t","t","p","s",":","/","/","w","w","w",".","p","i","b",".","g","o","v",".","i","n","/","x">>,
     summary |-> NoneStr,
     description |-> <<"T","r","e","a","t","y">>,
     published_parsed |-> None,
     updated_parsed |-> StructTime(2026, 10, 17, 18, 30, 0)],
    [title |-> <<"F","l","o","o","d"," ","a","l","e","r","t">>,
     link |-> <<"h","t","t","p","s",":","/","/","p","i","b",".","g","o","v",".","i","n","/","y">>,
     summary |-> <<>>,
     description |-> NoneStr,
     published_parsed |-> None,
     updated_parsed |-> None],
    [title |-> <<"F","l","o","o","d"," ","a","l","e","r","t">>,
     link |-> <<"h","t","t","p","s",":","/","/","p","i","b",".","g","o","v",".","i","n","/","z">>,
     summary |-> NoneStr,
     description |-> NoneStr,
     published_parsed |-> StructTime(2026, 11, 21, 0, 0, 0),
     updated_parsed |-> None] }

\* Most entries one feed document holds
MaxEntries == 2

\* The sequences of at most n elements of S, none of them twice
SeqsUpTo(S, n) ==
  {s \in UNION {[1..k -> S] : k \in 0..n} :
     \A i, j \in 1..Len(s) : i # j => s[i] # s[j]}

\* d.entries of one parsed feed; a document lists no entry twice (two of
\* its entries may still share title and link)
FeedDocs == SeqsUpTo(EntryMenu, MaxEntries)

-----------------------------------------------------------------------------
(* LOAD FEEDS (lines 110-128)                                               *)

\* rec of lines 115-125 for entry e of feed f
Record(f, e, now) ==
  [feed_name |-> FEEDS[f].name,
   title     |-> Strip(GetStr(e.title)),
   link      |-> Strip(GetStr(e.link)),
   summary   |-> NormalizeSummary(e.summary, e.description),
   date      |-> to_ist_ymd(IF e.published_parsed # None THEN e.published_parsed
                            ELSE e.updated_parsed, now)]

Records(f, doc, now) == [i \in 1..Len(doc) |-> Record(f, doc[i], now)]

Init ==
  /\ pc = "load"
  /\ feed = 1
  /\ midnight = FALSE
  /\ entries = <<>>
  /\ stderr = <<>>
  /\ today_ist = 0
  /\ recent = <<>>
  /\ items = <<>>
  /\ deduped = <<>>
  /\ items_json = <<>>
  /\ call = <<>>
  /\ ret = <<>>

\* Midnight (IST) passes while the feeds are being loaded.
Tick ==
  /\ pc = "load"
  /\ ~midnight
  /\ midnight' = TRUE
  /\ UNCHANGED <<pc, feed, entries, stderr, today_ist, recent, items, deduped,
                 items_json, call, ret>>

\* One pass of the loop of line 111 that ends without an exception.
LoadFeed ==
  /\ pc = "load"
  /\ feed <= Len(FEEDS)
  /\ \E doc \in FeedDocs :
       entries' = entries \o Records(feed, doc, Now(midnight))
  /\ feed' = feed + 1
  /\ UNCHANGED <<pc, midnight, stderr, today_ist, recent, items, deduped,
                 items_json, call, ret>>

\* The pass that raises with no handler around it: the run ends there.
LoadFeedFailUncaught ==
  /\ pc = "load"
  /\ feed <= Len(FEEDS)
  /\ pc' = "crashed"
  /\ UNCHANGED <<feed, midnight, entries, stderr, today_ist, recent, items,
                 deduped, items_json, call, ret>>

\* One pass in which feedparser.parse or the handling of an entry raises:
\* done are the entries appended before it (none when parse itself raises),
\* and the handler of lines 127-128 prints the warning.
LoadFeedFail ==
  /\ pc = "load"
  /\ feed <= Len(FEEDS)
  /\ \E done \in SeqsUpTo(EntryMenu, MaxEntries - 1) :
       entries' = entries \o Records(feed, done, Now(midnight))
  /\ stderr' = Append(stderr, FEEDS[feed].name)
  /\ feed' = feed + 1
  /\ UNCHANGED <<pc, midnight, today_ist, recent, items, deduped, items_json,
                 call, ret>>

-----------------------------------------------------------------------------
(* FILTER last 14 days (lines 130-139)                                      *)

\* within_days(dstr, n) with today_ist = today
within_days(dstr, n, today) ==
  LET dt == Strptime(dstr)
  IN  IF dt = ValueError THEN TRUE ELSE today - dt <= n

Filter ==
  /\ pc = "load"
  /\ feed > Len(FEEDS)
  /\ today_ist' = Now(midnight)
  /\ recent' = SelectSeq(entries, LAMBDA e : within_days(e.date, 14, Now(midnight)))
  /\ pc' = "normalize"
  /\ UNCHANGED <<feed, midnight, entries, stderr, items, deduped, items_json,
                 call, ret>>

-----------------------------------------------------------------------------
(* NORMALIZE TO FRONTEND FORMAT (lines 141-157)                             *)

\* The item with the date taken into the id.
ItemIdWithDate(e) ==
  LET cat == classify(e.title, e.summary, e.feed_name)
  IN  [id       |-> item_id(e.title \o e.date, e.link),
       date     |-> e.date,
       category |-> cat,
       title    |-> e.title,
       source   |-> e.feed_name,
       link     |-> e.link,
       summary  |-> e.summary,
       prelims  |-> prelims_facts(e, e.date),
       why      |-> <<"Mains angle: ", mains_angle(cat)>>,
       tags     |-> <<>>]

Item(e) ==
  LET cat == classify(e.title, e.summary, e.feed_name)
  IN  [id       |-> item_id(e.title, e.link),
       date     |-> e.date,
       category |-> cat,
       title    |-> e.title,
       source   |-> e.feed_name,
       link     |-> e.link,
       summary  |-> e.summary,
       prelims  |-> prelims_facts(e, e.date),
       why      |-> <<"Mains angle: ", mains_angle(cat)>>,
       tags     |-> <<>>]

Normalize ==
  /\ pc = "normalize"
  /\ items' = [i \in 1..Len(recent) |-> Item(recent[i])]
  /\ pc' = "dedup"
  /\ UNCHANGED <<feed, midnight, entries, stderr, today_ist, recent, deduped,
                 items_json, call, ret>>

-----------------------------------------------------------------------------
(* DEDUP (lines 159-166)                                                    *)

\* The loop with the test of line 164 left out: every item is kept.
DedupFromKeepsAll(its, i, seen, out) == out \o SubSeq(its, i, Len(its))

\* The loop keeping the last item of each (title, link) instead of the first.
RECURSIVE DedupFromKeepsLast(_, _, _, _)
DedupFromKeepsLast(its, i, seen, out) ==
  IF i > Len(its) THEN out
  ELSE IF \E j \in (i + 1)..Len(its) :
            <<its[j].title, its[j].link>> = <<its[i].title, its[i].link>>
         THEN DedupFromKeepsLast(its, i + 1, seen, out)
         ELSE DedupFromKeepsLast(its, i + 1, seen, Append(out, its[i]))

\* the loop of lines 162-166 from items[i] on
RECURSIVE DedupFrom(_, _, _, _)
DedupFrom(its, i, seen, out) ==
  IF i > Len(its) THEN out
  ELSE LET key == <<its[i].title, its[i].link>>
       IN  IF key \in seen THEN DedupFrom(its, i + 1, seen, out)
           ELSE DedupFrom(its, i + 1, seen \cup {key}, Append(out, its[i]))

Dedup ==
  /\ pc = "dedup"
  /\ deduped' = DedupFrom(items, 1, {}, <<>>)
  /\ pc' = "sort"
  /\ UNCHANGED <<feed, midnight, entries, stderr, today_ist, recent, items,
                 items_json, call, ret>>

-----------------------------------------------------------------------------
(* SORT newest first, then category (lines 168-169)                         *)

\* key(a) < key(b) for the key (date, category, title) of line 169
KeyLess(a, b) ==
  \/ StrLess(a.date, b.date)
  \/ /\ a.date = b.date
     /\ \/ StrLess(a.category, b.category)
        \/ a.category = b.category /\ StrLess(a.title, b.title)

\* x put into s, which is in descending order, behind every element whose
\* key is not smaller than x's
RECURSIVE InsertDesc(_, _)
InsertDesc(s, x) ==
  IF s = <<>> THEN <<x>>
  ELSE IF KeyLess(Head(s), x) THEN <<x>> \o s
  ELSE <<Head(s)>> \o InsertDesc(Tail(s), x)

\* The sort with the category left out of the key.
RECURSIVE SortDescNoCategory(_)
SortDescNoCategory(s) ==
  LET Less(a, b) == \/ StrLess(a.date, b.date)
                    \/ a.date = b.date /\ StrLess(a.title, b.title)
      place(t, x) == {k \in 1..Len(t) : Less(t[k], x)}
      into(t, x)  == IF place(t, x) = {} THEN Append(t, x)
                     ELSE SubSeq(t, 1, Min(place(t, x)) - 1) \o <<x>>
                          \o SubSeq(t, Min(place(t, x)), Len(t))
  IN  IF s = <<>> THEN <<>>
      ELSE into(SortDescNoCategory(SubSeq(s, 1, Len(s) - 1)), s[Len(s)])

\* list.sort(key=..., reverse=True): descending and stable
RECURSIVE SortDesc(_)
SortDesc(s) ==
  IF s = <<>> THEN <<>>
  ELSE InsertDesc(SortDesc(SubSeq(s, 1, Len(s) - 1)), s[Len(s)])

Sort ==
  /\ pc = "sort"
  /\ deduped' = SortDesc(deduped)
  /\ pc' = "write"
  /\ UNCHANGED <<feed, midnight, entries, stderr, today_ist, recent, items,
                 items_json, call, ret>>

-----------------------------------------------------------------------------
(* WRITE items.json (lines 171-175)                                         *)

Write ==
  /\ pc = "write"
  /\ items_json' = deduped
  /\ pc' = "done"
  /\ UNCHANGED <<feed, midnight, entries, stderr, today_ist, recent, items,
                 deduped, call, ret>>

\* open or json.dump raises: nothing catches it and the run ends.
WriteFail ==
  /\ pc = "write"
  /\ pc' = "crashed"
  /\ UNCHANGED <<feed, midnight, entries, stderr, today_ist, recent, items,
                 deduped, items_json, call, ret>>

Next ==
  \/ Tick
  \/ LoadFeed
  \/ LoadFeedFail
  \/ Filter
  \/ Normalize
  \/ Dedup
  \/ Sort
  \/ Write
  \/ WriteFail

Spec == Init /\ [][Next]_vars

Running == pc \notin {"done", "crashed"}

\* The position of the script moves on: to the next feed, or to the next
\* statement.
Advance ==
  /\ Running
  /\ pc' \in {"load", "normalize", "dedup", "sort", "write", "done", "crashed"}
  /\ feed' \in 1..(Len(FEEDS) + 1)

\* The script runs its statements one after the other and every call of it
\* returns (a fetch that never returns is outside this model), so while the
\* run has not ended its position keeps moving on.  Midnight need not come.
FairSpec == Spec /\ WF_<<pc, feed>>(Advance)

-----------------------------------------------------------------------------
(* The helpers on their own: one call of classify, of the summary           *)
(* normalization of lines 117 and 123, and of prelims_facts, on arguments   *)
(* drawn from the sets below.                                               *)

\* The variables of the run, at rest
AtRest ==
  /\ feed = 1
  /\ midnight = FALSE
  /\ entries = <<>>
  /\ stderr = <<>>
  /\ today_ist = 0
  /\ recent = <<>>
  /\ items = <<>>
  /\ deduped = <<>>
  /\ items_json = <<>>

\* Every sequence of at most n elements of S
AllSeqsUpTo(S, n) == UNION {[1..k -> S] : k \in 0..n}

ClassifyTitles ==
  { <<"G","S","T"," ","B","i","l","l">>,
    <<"B","i","l","l">>,
    <<"U","N"," ","s","u","m","m","i","t">>,
    <<"T","i","g","e","r"," ","c","e","n","s","u","s">>,
    <<"I","S","R","O"," ","l","a","u","n","c","h">>,
    <<"F","l","o","o","d"," ","a","l","e","r","t">>,
    <<"H","i","g","h"," ","C","o","u","r","t"," ","o","r","d","e","r">>,
    <<"P","M","-","K","I","S","A","N">>,
    <<"P","M","O">>,
    <<"T","e","m","p","l","e"," ","f","e","s","t","i","v","a","l">>,
    <<"M","o","n","s","o","o","n">>,
    <<"S","u","r","v","e","y"," ","r","e","p","o","r","t">>,
    <<"C","a","b","i","n","e","t">>,
    <<"H","e","l","l","o">>,
    <<"G","S","T","s">>,
    <<"A","c","t","o","r">>,
    <<>> }

ClassifySummaries ==
  { <<>>,
    <<"R","B","I">>,
    <<"<","b",">","A","c","t","<","/","b",">"," ","n","o","w">> }

ClassifyInputs ==
  [title : ClassifyTitles, summary : ClassifySummaries,
   source_hint : {FEEDS[1].name, FEEDS[2].name}]

InitClassify ==
  /\ pc = "call"
  /\ call \in ClassifyInputs
  /\ ret = <<>>
  /\ AtRest

CallClassify ==
  /\ pc = "call"
  /\ ret' = classify(call.title, call.summary, call.source_hint)
  /\ pc' = "return"
  /\ UNCHANGED <<feed, midnight, entries, stderr, today_ist, recent, items,
                 deduped, items_json, call>>

SpecClassify == InitClassify /\ [][CallClassify]_vars

\* Longest text in front of the padding of a summary
MaxPrefix == 3

\* n characters that are no markup
Pad(n) == [i \in 1..n |-> "x"]

\* Summaries: a short text over "<", ">", "b", " ", then padding up to just
\* under, at and over the limit; two texts with tags; a tag inside a tag.
SummaryTexts ==
  {p \o Pad(n) : p \in AllSeqsUpTo({"<", ">", "b", " "}, MaxPrefix),
                 n \in {0, 1} \cup ((SUMMARY_LIMIT - 3)..(SUMMARY_LIMIT + 1))}
  \cup { <<"<","b",">","H","e","l","l","o","<","/","b",">"," ","W","o","r","l","d">>,
         <<"<","<","b",">","b",">">>,
         <<"a"," ","<","i",">","b","<","/","i",">"," ","c"," ","<","b","r","/",">">> }

\* e.get("summary") and e.get("description")
SummaryInputs ==
  {[summary |-> t, description |-> NoneStr] : t \in SummaryTexts}
  \cup [summary : {NoneStr, <<>>},
        description : {NoneStr, <<>>, <<"<","b",">","R","B","I","<","/","b",">"," ","h","i","k","e","s">>}]

InitSummary ==
  /\ pc = "call"
  /\ call \in SummaryInputs
  /\ ret = <<>>
  /\ AtRest

CallNormalizeSummary ==
  /\ pc = "call"
  /\ ret' = NormalizeSummary(call.summary, call.description)
  /\ pc' = "return"
  /\ UNCHANGED <<feed, midnight, entries, stderr, today_ist, recent, items,
                 deduped, items_json, call>>

SpecSummary == InitSummary /\ [][CallNormalizeSummary]_vars

\* Longest host of a link
MaxHost == 6

\* Links: with a scheme and "//", with "//" alone, with a scheme alone; the
\* host any text over "w", ".", "a"; with and without a path.
LinkInputs ==
  {pre \o host \o path :
     pre  \in {<<"h",":","/","/">>, <<"/","/">>, <<"h",":">>},
     host \in AllSeqsUpTo({"w", ".", "a"}, MaxHost),
     path \in {<<>>, <<"/","x">>}}

FactsInputs ==
  [entry : [feed_name : {FEEDS[1].name}, link : LinkInputs],
   date_str : {Strftime(Now(FALSE))}]

InitFacts ==
  /\ pc = "call"
  /\ call \in FactsInputs
  /\ ret = <<>>
  /\ AtRest

CallPrelimsFacts ==
  /\ pc = "call"
  /\ ret' = prelims_facts(call.entry, call.date_str)
  /\ pc' = "return"
  /\ UNCHANGED <<feed, midnight, entries, stderr, today_ist, recent, items,
                 deduped, items_json, call>>

SpecFacts == InitFacts /\ [][CallPrelimsFacts]_vars

-----------------------------------------------------------------------------
(* Properties of the run                                                    *)

Range(s) == {s[i] : i \in 1..Len(s)}

Key(it) == <<it.title, it.link>>

\* C1: the array written to items.json holds no two items with the same
\* (title, link) pair, whatever the feeds returned.
C1_NoDuplicateKeys ==
  \A i, j \in 1..Len(items_json) :
    i # j => Key(items_json[i]) # Key(items_json[j])

\* C1 witness: a written array from which a duplicate was removed.
C1_Witness ==
  /\ pc = "done"
  /\ Len(items_json) >= 2
  /\ Len(items) > Len(items_json)

\* C2: every written item whose date parses lies at most 14 calendar days
\* from the run date, before it or after it.
C2_WithinFourteenDays ==
  \A i \in 1..Len(items_json) :
    LET dt == Strptime(items_json[i].date)
    IN  dt # ValueError =>
          /\ today_ist - dt <= 14
          /\ dt - today_ist <= 14

\* C3: the written array is in descending order of (date, category, title):
\* of two adjacent items the earlier one's tuple is not the smaller one.
C3_SortedDescending ==
  \A i \in 1..(Len(items_json) - 1) :
    LET A == items_json[i]
        B == items_json[i + 1]
    IN  \/ StrLess(B.date, A.date)
        \/ /\ A.date = B.date
           /\ \/ StrLess(B.category, A.category)
              \/ /\ A.category = B.category
                 /\ ~StrLess(A.title, B.title)

\* C3 witness: three items written, in another order than they were produced,
\* two of them with the same date.
C3_Witness ==
  /\ pc = "done"
  /\ Len(items_json) >= 3
  /\ items_json[1] # items[1]
  /\ \E i \in 1..(Len(items_json) - 1) : items_json[i].date = items_json[i + 1].date

\* C5: once the handler of a feed has run, no record of that feed is in
\* entries nor in the written array.
C5_FailedFeedContributesNothing ==
  /\ \A i \in 1..Len(entries) : entries[i].feed_name \notin Range(stderr)
  /\ \A i \in 1..Len(items_json) : items_json[i].source \notin Range(stderr)

\* A record is in the window of the run and is the first in-window record
\* of entries with its (title, link).
FirstInWindow(i) ==
  /\ within_days(entries[i].date, 14, today_ist)
  /\ \A j \in 1..(i - 1) :
       within_days(entries[j].date, 14, today_ist) => Key(entries[j]) # Key(entries[i])

C9_IdFromTitleAndLink ==
  /\ \A i \in 1..Len(items) :
       /\ Len(items[i].id) = 12
       /\ items[i].id = SubSeq(Sha1Hex(Utf8(items[i].title \o <<"|">> \o items[i].link)), 1, 12)
  /\ \A i, j \in 1..Len(items) :
       Key(items[i]) = Key(items[j]) => items[i].id = items[j].id

\* C9 witness: two items with one (title, link) and another date, summary
\* and source.
C9_Witness ==
  \E i, j \in 1..Len(items) :
    /\ Key(items[i]) = Key(items[j])
    /\ items[i].date # items[j].date
    /\ items[i].summary # items[j].summary
    /\ items[i].source # items[j].source

\* C10: of the records that passed the filter, in the order they were
\* produced, the written array keeps for each (title, link) the first one,
\* with its source, date and summary, and nothing else.
C10_FirstOccurrenceKept ==
  pc = "done" =>
    /\ \A i \in 1..Len(recent) : \E k \in 1..Len(items_json) : Key(items_json[k]) = Key(recent[i])
    /\ \A k \in 1..Len(items_json) :
         LET same  == {i \in 1..Len(recent) : Key(recent[i]) = Key(items_json[k])}
         IN  /\ same # {}
             /\ items_json[k].source = recent[Min(same)].feed_name
             /\ items_json[k].date = recent[Min(same)].date
             /\ items_json[k].summary = recent[Min(same)].summary
    /\ \A k, l \in 1..Len(items_json) : k # l => Key(items_json[k]) # Key(items_json[l])

\* C10 witness: a later record with the (title, link) of an earlier one and
\* another source, date and summary was dropped.
C10_Witness ==
  /\ pc = "done"
  /\ \E i, j \in 1..Len(recent) :
       /\ i < j
       /\ Key(recent[i]) = Key(recent[j])
       /\ recent[i].feed_name # recent[j].feed_name
       /\ recent[i].date # recent[j].date
       /\ recent[i].summary # recent[j].summary

-----------------------------------------------------------------------------
(* Properties of the helpers                                                *)

\* The rules whose pattern matches the text classify searches
MatchingRules(title, summary, source_hint) ==
  {r \in 1..Len(RULES) :
     Search(RULES[r].pattern, Lower(title \o <<" ">> \o summary \o <<" ">> \o source_hint))}

\* C4: classify returns the category of the first rule, in the order Economy,
\* International Relations, Environment, Science & Tech, Security/Disaster,
\* Judgments, Bills & Acts, Schemes, History & Culture, Geography, Reports &
\* Indices, Polity, whose pattern matches the text, and "Polity" when none
\* does; "GST Bill" is Economy.
C4_FirstMatchingRule ==
  /\ [r \in 1..Len(RULES) |-> RULES[r].cat]
       = <<Economy, InternationalRelations, Environment, ScienceTech,
           SecurityDisaster, Judgments, BillsActs, Schemes, HistoryCulture,
           Geography, ReportsIndices, Polity>>
  /\ pc = "return" =>
       LET m == MatchingRules(call.title, call.summary, call.source_hint)
       IN  /\ m = {} => ret = <<"P","o","l","i","t","y">>
           /\ m # {} => ret = RULES[Min(m)].cat
           /\ call.title = <<"G","S","T"," ","B","i","l","l">> => ret = <<"E","c","o","n","o","m","y">>

\* C4 witness: a text that matches the Economy rule and the Bills & Acts rule
\* has been classified, and so has a text that matches no rule.
C4_Witness ==
  /\ pc = "return"
  /\ \/ {1, 7} \subseteq MatchingRules(call.title, call.summary, call.source_hint)
     \/ MatchingRules(call.title, call.summary, call.source_hint) = {}

\* The text the tags are removed from: the summary, else the description,
\* else "", trimmed
RawSummary == Or(Or(call.summary, call.description), <<>>)

\* No match of <[^<]+?> is in s
TagFree(s) == \A i \in 1..Len(s) : TagEnd(s, i) = 0

\* C7 as stated: the normalized summary holds no tag, has at most 450
\* characters, and has exactly 450 when the raw summary has more than 450.
C7_TagFreeAndCutTo450 ==
  pc = "return" =>
    /\ TagFree(ret)
    /\ Len(ret) <= 450
    /\ Len(RawSummary) > 450 => Len(ret) = 450
    /\ RawSummary = <<"<","b",">","H","e","l","l","o","<","/","b",">"," ","W","o","r","l","d">>
         => ret = <<"H","e","l","l","o"," ","W","o","r","l","d">>

\* The places of s in no match of <[^<]+?>
OutsideTags(s) ==
  LET opens == {i \in 1..Len(s) : s[i] = "<" /\ TagEnd(s, i) # 0}
  IN  {k \in 1..Len(s) : \A i \in opens : k < i \/ k > TagEnd(s, i)}

\* C7 amended: the normalized summary is the trimmed text without its tags,
\* cut to 450 characters: it has at most 450 characters, exactly 450 when the
\* text without its tags has more than 450, and all of that text otherwise;
\* no "<" is left when every "<" of the text opens a tag.
C7_TagsRemovedThenCutTo450 ==
  pc = "return" =>
    LET text    == Strip(RawSummary)
        outside == OutsideTags(text)
        removed == (1..Len(text)) \ outside
        left    == Cardinality(outside)
    IN  /\ Len(ret) <= 450
        /\ left > 450 => Len(ret) = 450
        /\ left <= 450 => Len(ret) = left
        /\ \A k \in outside :
             LET n == k - Cardinality({j \in removed : j < k})
             IN  n <= Len(ret) => ret[n] = text[k]
        /\ (\A i \in 1..Len(text) : text[i] = "<" => TagEnd(text, i) # 0)
             => \A n \in 1..Len(ret) : ret[n] # "<"
        /\ RawSummary = <<"<","b",">","H","e","l","l","o","<","/","b",">"," ","W","o","r","l","d">>
             => ret = <<"H","e","l","l","o"," ","W","o","r","l","d">>

\* C7 witness: a raw summary of more than 450 characters with a tag, cut to
\* 450 characters after the tag was removed.
C7_Witness ==
  /\ pc = "return"
  /\ Len(RawSummary) > 450
  /\ \E i \in 1..Len(RawSummary) : TagEnd(RawSummary, i) # 0
  /\ Len(ret) = 450

\* C8: prelims_facts returns "Source: <feed name>", "Date: <date>" and, exactly
\* when the host of the link is not empty, "Domain: <host>" with the host
\* less a leading "www." and otherwise as it is.
C8_DomainLessLeadingWww ==
  pc = "return" =>
    LET host == Netloc(call.entry.link)
        www  == <<"w","w","w",".">>
    IN  ret = << <<"S","o","u","r","c","e",":"," ">> \o call.entry.feed_name,
                 <<"D","a","t","e",":"," ">> \o call.date_str >>
              \o (IF host = <<>> THEN <<>>
                  ELSE << <<"D","o","m","a","i","n",":"," ">>
                          \o (IF StartsWithAt(host, 1, www)
                                THEN SubSeq(host, 5, Len(host)) ELSE host) >>)

=============================================================================
